---------------------------- MODULE Spec2Model ----------------------------
(***************************************************************************)
(* Model of the hotel booking form: the BookingProvider context state,     *)
(* the BookingForm component (react-hook-form values and errors, the yup   *)
(* schema, the two effects, onSubmit) and the three ApiService requests.   *)
(*                                                                         *)
(* Dates are calendar days (integers >= 1); NullDate is JavaScript's null. *)
(* Text typed into the promo code field is a sequence of characters.       *)
(***************************************************************************)
EXTENDS Integers, Sequences, FiniteSets, TLC

-----------------------------------------------------------------------------
(* Bounds of the model *)

\* the calendar shown by the date pickers holds the days 1..MaxDay
MaxDay == 2
\* the clock (new Date()) starts at day 1 and advances up to this day
MaxToday == 2
\* number of calls of ApiService.createBooking
MaxBookings == 2
\* the same where the form is explored with all its inputs
MaxFormBookings == 1
\* getUnavailableDates requests in flight at the same time
MaxDatesPending == 2

-----------------------------------------------------------------------------
(* Values *)

\* JavaScript null for a string | null state (error, success, a message)
Null == "null"
\* JavaScript null for a Date | null form value
NullDate == 0
\* JavaScript null for selectedRoom
NullRoom == [null |-> TRUE]

Days == 1..MaxDay

FormFields == {"guest_name", "room_id", "check_in_date", "check_out_date", "promo_code"}

\* keys an API errors map may carry: the form fields and one that is no form field
ApiErrorKeys == FormFields \cup {"email"}

initialFormData ==
    [guest_name |-> "", room_id |-> "", check_in_date |-> NullDate,
     check_out_date |-> NullDate, promo_code |-> <<>>]

\* what the user may type as a guest name
GuestNames == {"", "Jo"}

Summer == <<"S", "U", "M", "M", "E", "R">>

Repeat(c, n) == [i \in 1..n |-> c]

\* what the user may type as a promo code: the empty text, texts around both
\* length limits, a lowercase text and one with a character outside [A-Z0-9]
PromoInputs ==
    { <<>>, Repeat("A", 5), Summer, Repeat("7", 10),
      Repeat("A", 11), <<"i", "n", "v", "a", "l", "i", "d">>,
      <<"S", "U", "M", "M", "E", "R", "-", "1">> }


-----------------------------------------------------------------------------
(* The remote service *)

\* price field of an API room that carries no price (undefined or null)
NoPrice == -1

\* response.data.rooms.data of GET /api/rooms: one room with a price and one
\* without
ApiRooms ==
    << [id |-> 1, number |-> 101, type |-> "Standard", price |-> 150],
       [id |-> 2, number |-> 202, type |-> "Deluxe", price |-> NoPrice] >>

\* the same where the second room is free of charge: the API provides price 0
ApiRoomsFree ==
    << [id |-> 1, number |-> 101, type |-> "Standard", price |-> 150],
       [id |-> 2, number |-> 202, type |-> "Deluxe", price |-> 0] >>

\* response.data where it is an array of Room itself
PlainRooms ==
    << [id |-> "1", name |-> <<"Garden room">>, price |-> 80,
        description |-> <<"Ground floor">>],
       [id |-> "2", name |-> <<"Sea room">>, price |-> 0,
        description |-> <<"Top floor">>] >>

\* response.data of GET /api/rooms: paginated is the test
\* Array.isArray(response.data.rooms.data), data is that array when it holds
\* and response.data itself when not
PaginatedResponse == [paginated |-> TRUE, data |-> ApiRooms]

RoomsResponses ==
    { PaginatedResponse,
      [paginated |-> TRUE, data |-> ApiRoomsFree],
      [paginated |-> TRUE, data |-> <<>>],
      [paginated |-> FALSE, data |-> PlainRooms] }

\* GET /api/rooms/{id}/unavailable-dates, as the calendar days of the Date
\* objects that ApiService.getUnavailableDates returns for the room
ServerUnavailableDates(roomId) ==
    IF roomId = "1" THEN {1} ELSE IF roomId = "2" THEN {2} ELSE {}

\* error.response.data of a rejected POST /api/bookings: message and errors are
\* Null when the response carries none (also when there is no response at all)
NoErrors == [k \in ApiErrorKeys |-> <<>>]

ApiRejections ==
    { [message |-> "The given data was invalid.", hasErrors |-> TRUE,
       errors |-> [NoErrors EXCEPT !["guest_name"] = <<"Guest name is too short">>,
                                   !["check_in_date"] = <<"Invalid check-in date">>]],
      [message |-> Null, hasErrors |-> TRUE,
       errors |-> [NoErrors EXCEPT !["promo_code"] = <<"Promo code expired", "Promo code unknown">>,
                                   !["email"] = <<"Email is required">>]],
      [message |-> "Room is not available", hasErrors |-> FALSE, errors |-> NoErrors],
      [message |-> Null, hasErrors |-> FALSE, errors |-> NoErrors] }


-----------------------------------------------------------------------------
(* ApiService *)

DefaultPrice == 100

\* JavaScript falsiness of a price: undefined, null and the number 0
FalsyPrice(price) == price = NoPrice \/ price = 0

\* room.price || 100
PriceOrDefault(price) == IF FalsyPrice(price) THEN DefaultPrice ELSE price

\* the element mapping of ApiService.getRooms
MapRoom(room) ==
    [id |-> ToString(room.id),
     name |-> <<"Room ", room.number, " (", room.type, ")">>,
     price |-> PriceOrDefault(room.price),
     description |-> <<"A comfortable ", room.type, " room">>]

\* the value ApiService.getRooms resolves with for a response
RoomsOfResponse(response) ==
    IF response.paginated
    THEN [i \in 1..Len(response.data) |-> MapRoom(response.data[i])]
    ELSE response.data

\* the value ApiService.getUnavailableDates(roomId) resolves with
getUnavailableDates(roomId) == ServerUnavailableDates(roomId)

-----------------------------------------------------------------------------
(* The yup schema *)

PromoMinLen == 6
PromoMaxLen == 10

UpperAlnum ==
    {"A", "B", "C", "D", "E", "F", "G", "H", "I", "J", "K", "L", "M", "N", "O",
     "P", "Q", "R", "S", "T", "U", "V", "W", "X", "Y", "Z",
     "0", "1", "2", "3", "4", "5", "6", "7", "8", "9"}

\* the same with the quantifier {6,} : no upper limit on the length
MatchesPromoUnbounded(code) ==
    /\ Len(code) >= 6
    /\ \A i \in 1..Len(code) : code[i] \in UpperAlnum

\* value.search(/^[A-Z0-9]{6,10}$/) !== -1
MatchesPromo(code) ==
    /\ Len(code) >= PromoMinLen
    /\ Len(code) <= PromoMaxLen
    /\ \A i \in 1..Len(code) : code[i] \in UpperAlnum

NoError == Null

\* yup.string().required(msg): the empty string is not present
RequiredString(value, msg) == IF value = "" THEN msg ELSE NoError

\* yup.date().required(msg).nullable() on null: yup 0.x keeps required as a test
\* that null fails; from yup 1 required() is nonNullable().defined() and the
\* later nullable() admits null again
RequiredNullableDate(value, msg, major) ==
    IF value = NullDate /\ major = 0 THEN msg ELSE NoError

\* yup.date().min(ref, msg): skipped on null, else value >= the referenced
\* value; a null reference compares as 0, below every date
MinDate(value, ref, msg) ==
    IF value = NullDate \/ value >= ref THEN NoError ELSE msg

\* yup.string().optional().matches(regex, msg): only undefined is skipped, and
\* the registered input always holds a string
OptionalMatches(value, msg) == IF MatchesPromo(value) THEN NoError ELSE msg

First(a, b) == IF a # NoError THEN a ELSE b

\* the error of one field of the schema for the form values (first failing test)
SchemaError(field, values, major) ==
    CASE field = "guest_name" ->
           RequiredString(values.guest_name, "Guest name is required")
      [] field = "room_id" ->
           RequiredString(values.room_id, "Please select a room")
      [] field = "check_in_date" ->
           RequiredNullableDate(values.check_in_date, "Check-in date is required", major)
      [] field = "check_out_date" ->
           First(MinDate(values.check_out_date, values.check_in_date,
                         "Check-out date must be after check-in date"),
                 RequiredNullableDate(values.check_out_date,
                                      "Check-out date is required", major))
      [] field = "promo_code" ->
           OptionalMatches(values.promo_code,
               "Promo code must be uppercase alphanumeric and between 6-10 characters")
      [] OTHER -> NoError

\* yupResolver(schema): the errors of all fields (abortEarly: false)
Resolve(values, major) == [k \in ApiErrorKeys |-> SchemaError(k, values, major)]

NoFormErrors == [k \in ApiErrorKeys |-> NoError]

-----------------------------------------------------------------------------
(* State *)

VARIABLES
    mounted,            \* BookingForm has rendered and run its mount effects
    yupMajor,           \* major version of the yup package of the build (0 or 1)
    today,              \* the day new Date() falls on
    roomsResponse,      \* what GET /api/rooms answers with
    \* BookingProvider
    rooms, selectedRoom, bookingData, unavailableDates, isLoading, error, success,
    \* BookingForm
    apiFieldErrors,     \* useState<ApiFieldErrors>
    formValues,         \* react-hook-form field values
    errors,             \* react-hook-form formState.errors, NoError where none
    isSubmitted,        \* react-hook-form formState.isSubmitted
    \* requests in flight
    roomsRequest,       \* ApiService.getRooms(): "none", "pending", "resolved", "rejected"
    datesPending,       \* getUnavailableDates calls awaiting, with the effect's closure
    bookingPending,     \* createBooking calls awaiting, with the submitted data
    \* history
    getRoomsCalls,      \* number of calls of ApiService.getRooms
    createBookingCalls  \* number of calls of ApiService.createBooking

\* the value ApiService.getRooms resolves with
getRooms == RoomsOfResponse(roomsResponse)

vars ==
    << mounted, yupMajor, today, roomsResponse, rooms, selectedRoom, bookingData, unavailableDates,
       isLoading, error, success, apiFieldErrors, formValues, errors, isSubmitted,
       roomsRequest, datesPending, bookingPending, getRoomsCalls, createBookingCalls >>

contextVars == << rooms, selectedRoom, bookingData, unavailableDates, isLoading, error, success >>
formVars == << formValues, errors, isSubmitted, apiFieldErrors >>
requestVars == << roomsRequest, datesPending, bookingPending >>
historyVars == << getRoomsCalls, createBookingCalls >>
envVars == << mounted, yupMajor, today, roomsResponse >>

\* the state of BookingProvider before BookingForm has run its effects
Start ==
    /\ mounted = FALSE
    /\ yupMajor \in {0, 1}
    /\ today = 1
    /\ rooms = <<>>
    /\ selectedRoom = NullRoom
    /\ bookingData = initialFormData
    /\ unavailableDates = {}
    /\ isLoading = FALSE
    /\ error = Null
    /\ success = Null
    /\ apiFieldErrors = NoErrors
    /\ formValues = initialFormData
    /\ errors = NoFormErrors
    /\ isSubmitted = FALSE
    /\ roomsRequest = "none"
    /\ datesPending = <<>>
    /\ bookingPending = <<>>
    /\ getRoomsCalls = 0
    /\ createBookingCalls = 0

\* the service answers GET /api/rooms with the paginated structure
Init == Start /\ roomsResponse = PaginatedResponse

-----------------------------------------------------------------------------
(* Helpers of the component *)

RemoveAt(seq, i) == [j \in 1..(Len(seq) - 1) |-> IF j < i THEN seq[j] ELSE seq[j + 1]]

RoomIds(rs) == {rs[i].id : i \in 1..Len(rs)}

\* rooms[0] || null : the first room, whatever its id
FirstRoom(rs, roomId) == IF Len(rs) > 0 THEN rs[1] ELSE NullRoom

\* rooms.find(room => room.id === roomId) || null
FindRoom(rs, roomId) ==
    IF \E i \in 1..Len(rs) : rs[i].id = roomId
    THEN rs[CHOOSE i \in 1..Len(rs) :
                /\ rs[i].id = roomId
                /\ \A j \in 1..(i - 1) : rs[j].id # roomId]
    ELSE NullRoom

\* isDateUnavailable(date)
isDateUnavailable(date) == date \in unavailableDates

\* prev => ({ ...data, ...prev }) : the stored fields win
MergeKeepingStored(prev, data) ==
    [k \in DOMAIN prev \cup DOMAIN data |-> IF k \in DOMAIN prev THEN prev[k] ELSE data[k]]

\* setBookingData: prev => ({ ...prev, ...data })
MergeBookingData(prev, data) ==
    [k \in DOMAIN prev \cup DOMAIN data |-> IF k \in DOMAIN data THEN data[k] ELSE prev[k]]

\* the effect without its early return
DatesEffectAlwaysRuns(roomId) == TRUE

\* the effect on [selectedroom_id, rooms]: it returns at once for an empty id,
\* else it calls fetchUnavailableDates, which captures selectedroom_id and rooms
DatesEffectRuns(roomId) == roomId # ""

DatesEffectRequest(roomId, roomsNow) == [roomId |-> roomId, rooms |-> roomsNow]

\* react-hook-form after the first submit (reValidateMode onChange): a change
\* of a field runs the resolver and replaces the error of that field
Revalidate(field, values) ==
    IF isSubmitted
    THEN [errors EXCEPT ![field] = SchemaError(field, values, yupMajor)]
    ELSE errors

-----------------------------------------------------------------------------
(* The effects *)

\* the same with rooms among the dependencies
RoomsEffectDependsOnRooms(oldRooms, newRooms) == oldRooms # newRooms

\* dependencies of the fetchRooms effect: [setRooms, setIsLoading, setError],
\* the useState setters, whose identity never changes after the mount
RoomsEffectDepsChanged(oldRooms, newRooms) == FALSE

\* BookingForm renders for the first time: useForm takes bookingData as its
\* default values, then both effects run
Mount ==
    /\ ~mounted
    /\ mounted' = TRUE
    /\ formValues' = bookingData
    \* fetchRooms up to its await
    /\ getRoomsCalls' = getRoomsCalls + 1
    /\ roomsRequest' = "pending"
    /\ isLoading' = TRUE
    /\ error' = Null
    \* fetchUnavailableDates up to its await
    /\ datesPending' = IF DatesEffectRuns(bookingData.room_id)
                       THEN Append(datesPending,
                                   DatesEffectRequest(bookingData.room_id, rooms))
                       ELSE datesPending
    /\ UNCHANGED << yupMajor, today, roomsResponse, rooms, selectedRoom, bookingData,
                    unavailableDates, success, apiFieldErrors, errors, isSubmitted, bookingPending,
                    createBookingCalls >>

\* getRooms resolves: setRooms(roomsData), finally setIsLoading(false); rooms is
\* a dependency of the unavailable-dates effect, which runs again
RoomsResolve ==
    /\ roomsRequest = "pending"
    /\ rooms' = getRooms
    /\ LET again == RoomsEffectDepsChanged(rooms, rooms')
           dates == DatesEffectRuns(formValues.room_id) /\ rooms' # rooms
       IN  /\ roomsRequest' = (IF again THEN "pending" ELSE "resolved")
           /\ getRoomsCalls' = IF again THEN getRoomsCalls + 1 ELSE getRoomsCalls
           /\ isLoading' = (again \/ dates)
           /\ error' = IF again \/ dates THEN Null ELSE error
           /\ datesPending' = IF dates
                              THEN Append(datesPending,
                                          DatesEffectRequest(formValues.room_id, rooms'))
                              ELSE datesPending
    /\ UNCHANGED << envVars, selectedRoom, bookingData, unavailableDates, success,
                    formVars, bookingPending, createBookingCalls >>

\* the same without the finally block: the loading flag is left set
RoomsRejectWithoutFinally ==
    /\ roomsRequest = "pending"
    /\ roomsRequest' = "rejected"
    /\ error' = "Failed to load rooms. Please try again."
    /\ UNCHANGED << envVars, rooms, selectedRoom, bookingData, unavailableDates, isLoading,
                    success, formVars, datesPending, bookingPending, historyVars >>

\* getRooms rejects: setError(...), finally setIsLoading(false)
RoomsReject ==
    /\ roomsRequest = "pending"
    /\ roomsRequest' = "rejected"
    /\ error' = "Failed to load rooms. Please try again."
    /\ isLoading' = FALSE
    /\ UNCHANGED << envVars, rooms, selectedRoom, bookingData, unavailableDates,
                    success, formVars, datesPending, bookingPending, historyVars >>

\* the same with setIsLoading(false) missing: the flag is left as it is
DatesResolveKeepingLoading(i) ==
    /\ i \in 1..Len(datesPending)
    /\ LET req == datesPending[i]
       IN  /\ unavailableDates' = getUnavailableDates(req.roomId)
           /\ selectedRoom' = FindRoom(req.rooms, req.roomId)
    /\ datesPending' = RemoveAt(datesPending, i)
    /\ UNCHANGED << envVars, rooms, bookingData, isLoading, error, success, formVars,
                    roomsRequest, bookingPending, historyVars >>

\* getUnavailableDates resolves for the i-th pending call
DatesResolve(i) ==
    /\ i \in 1..Len(datesPending)
    /\ LET req == datesPending[i]
       IN  /\ unavailableDates' = getUnavailableDates(req.roomId)
           /\ selectedRoom' = FindRoom(req.rooms, req.roomId)
    /\ isLoading' = FALSE
    /\ datesPending' = RemoveAt(datesPending, i)
    /\ UNCHANGED << envVars, rooms, bookingData, error, success, formVars,
                    roomsRequest, bookingPending, historyVars >>

\* the same with the catch resetting the room and its dates
DatesRejectClearing(i) ==
    /\ i \in 1..Len(datesPending)
    /\ error' = "Failed to load availability. Please try again."
    /\ unavailableDates' = {}
    /\ selectedRoom' = NullRoom
    /\ isLoading' = FALSE
    /\ datesPending' = RemoveAt(datesPending, i)
    /\ UNCHANGED << envVars, rooms, bookingData, success, formVars, roomsRequest,
                    bookingPending, historyVars >>

\* getUnavailableDates rejects for the i-th pending call
DatesReject(i) ==
    /\ i \in 1..Len(datesPending)
    /\ error' = "Failed to load availability. Please try again."
    /\ isLoading' = FALSE
    /\ datesPending' = RemoveAt(datesPending, i)
    /\ UNCHANGED << envVars, rooms, selectedRoom, bookingData, unavailableDates,
                    success, formVars, roomsRequest, bookingPending, historyVars >>

-----------------------------------------------------------------------------
(* The user *)

\* typing into the guest name input
SetGuestName(name) ==
    /\ mounted
    /\ name # formValues.guest_name
    /\ formValues' = [formValues EXCEPT !.guest_name = name]
    /\ errors' = Revalidate("guest_name", formValues')
    /\ UNCHANGED << envVars, contextVars, apiFieldErrors, isSubmitted, requestVars,
                    historyVars >>

\* typing into the promo code input
SetPromoCode(code) ==
    /\ mounted
    /\ code # formValues.promo_code
    /\ formValues' = [formValues EXCEPT !.promo_code = code]
    /\ errors' = Revalidate("promo_code", formValues')
    /\ UNCHANGED << envVars, contextVars, apiFieldErrors, isSubmitted, requestVars,
                    historyVars >>

\* choosing an option of the room select: the empty option or one of rooms;
\* the changed selectedroom_id runs the unavailable-dates effect
SelectRoom(roomId) ==
    /\ mounted
    /\ roomId \in {""} \cup RoomIds(rooms)
    /\ roomId # formValues.room_id
    /\ DatesEffectRuns(roomId) => Len(datesPending) < MaxDatesPending
    /\ formValues' = [formValues EXCEPT !.room_id = roomId]
    /\ errors' = Revalidate("room_id", formValues')
    /\ IF DatesEffectRuns(roomId)
       THEN /\ isLoading' = TRUE
            /\ error' = Null
            /\ datesPending' = Append(datesPending, DatesEffectRequest(roomId, rooms))
       ELSE UNCHANGED << isLoading, error, datesPending >>
    /\ UNCHANGED << envVars, rooms, selectedRoom, bookingData, unavailableDates,
                    success, apiFieldErrors, isSubmitted, roomsRequest, bookingPending,
                    historyVars >>

\* a day the check-in DatePicker lets the user choose: minDate={new Date()},
\* filterDate={date => !isDateUnavailable(date)}; clearing the input gives null
CheckInSelectable(date) ==
    \/ date = NullDate
    \/ date \in Days /\ date >= today /\ ~isDateUnavailable(date)

SetCheckIn(date) ==
    /\ mounted
    /\ CheckInSelectable(date)
    /\ date # formValues.check_in_date
    /\ formValues' = [formValues EXCEPT !.check_in_date = date]
    /\ errors' = Revalidate("check_in_date", formValues')
    /\ UNCHANGED << envVars, contextVars, apiFieldErrors, isSubmitted, requestVars,
                    historyVars >>

\* disabled={!bookingData.check_in_date} : the stored date, not the watched one
CheckOutDisabledByStoredDate == bookingData.check_in_date = NullDate

\* the check-out DatePicker: disabled={!selectedcheck_in_date},
\* minDate={selectedcheck_in_date || new Date()}, the same filterDate
CheckOutDisabled == formValues.check_in_date = NullDate

CheckOutMinDate ==
    IF formValues.check_in_date # NullDate THEN formValues.check_in_date ELSE today

CheckOutSelectable(date) ==
    /\ ~CheckOutDisabled
    /\ \/ date = NullDate
       \/ date \in Days /\ date >= CheckOutMinDate /\ ~isDateUnavailable(date)

SetCheckOut(date) ==
    /\ mounted
    /\ CheckOutSelectable(date)
    /\ date # formValues.check_out_date
    /\ formValues' = [formValues EXCEPT !.check_out_date = date]
    /\ errors' = Revalidate("check_out_date", formValues')
    /\ UNCHANGED << envVars, contextVars, apiFieldErrors, isSubmitted, requestVars,
                    historyVars >>

\* midnight passes while the page is open
Tick ==
    /\ today < MaxToday
    /\ today' = today + 1
    /\ UNCHANGED << mounted, yupMajor, roomsResponse, contextVars, formVars, requestVars,
                    historyVars >>

-----------------------------------------------------------------------------
(* Submitting *)

\* JavaScript truthiness of a string | null | undefined
Truthy(str) == str # Null /\ str # ""

\* field in data
FieldInData(field, data) == field \in DOMAIN data

\* the forEach over Object.entries(apiErrors): setFormError(field, messages[0])
\* for the fields of the submitted data that have a message
SetFormErrors(errs, apiErrors, data) ==
    [k \in ApiErrorKeys |->
        IF FieldInData(k, data) /\ Len(apiErrors[k]) > 0 THEN apiErrors[k][1] ELSE errs[k]]

\* the general error of a rejected createBooking
RejectionError(rejection) ==
    IF rejection.hasErrors
    THEN IF Truthy(rejection.message) THEN rejection.message ELSE "Validation failed"
    ELSE IF Truthy(rejection.message) THEN rejection.message
         ELSE "Failed to create booking. Please try again."

\* the submit button is disabled={isLoading}
SubmitDisabled == isLoading

\* the same without setSuccess(null) in onSubmit
SubmitKeepingSuccess(maxBookings) ==
    /\ mounted
    /\ ~SubmitDisabled
    /\ isSubmitted' = TRUE
    /\ errors' = Resolve(formValues, yupMajor)
    /\ IF errors' = NoFormErrors
       THEN /\ createBookingCalls < maxBookings
            /\ isLoading' = TRUE
            /\ error' = Null
            /\ apiFieldErrors' = NoErrors
            /\ bookingPending' = Append(bookingPending, formValues)
            /\ createBookingCalls' = createBookingCalls + 1
       ELSE UNCHANGED << isLoading, error, apiFieldErrors, bookingPending,
                         createBookingCalls >>
    /\ UNCHANGED << envVars, rooms, selectedRoom, bookingData, unavailableDates, success,
                    formValues, roomsRequest, datesPending, getRoomsCalls >>

\* a click on the submit button: handleSubmit runs the resolver, stores its
\* errors and, when there are none, calls onSubmit, which runs up to its await;
\* maxBookings bounds the calls of createBooking
Submit(maxBookings) ==
    /\ mounted
    /\ ~SubmitDisabled
    /\ isSubmitted' = TRUE
    /\ errors' = Resolve(formValues, yupMajor)
    /\ IF errors' = NoFormErrors
       THEN /\ createBookingCalls < maxBookings
            /\ isLoading' = TRUE
            /\ error' = Null
            /\ success' = Null
            /\ apiFieldErrors' = NoErrors
            /\ bookingPending' = Append(bookingPending, formValues)
            /\ createBookingCalls' = createBookingCalls + 1
       ELSE UNCHANGED << isLoading, error, success, apiFieldErrors, bookingPending,
                         createBookingCalls >>
    /\ UNCHANGED << envVars, rooms, selectedRoom, bookingData, unavailableDates,
                    formValues, roomsRequest, datesPending, getRoomsCalls >>

\* createBooking resolves for the i-th pending call
BookingResolve(i) ==
    /\ i \in 1..Len(bookingPending)
    /\ success' = "Booking created successfully!"
    /\ bookingData' = MergeBookingData(bookingData, bookingPending[i])
    /\ isLoading' = FALSE
    /\ bookingPending' = RemoveAt(bookingPending, i)
    /\ UNCHANGED << envVars, rooms, selectedRoom, unavailableDates, error, formVars,
                    roomsRequest, datesPending, historyVars >>

\* createBooking rejects for the i-th pending call
BookingReject(i, rejection) ==
    /\ i \in 1..Len(bookingPending)
    /\ error' = RejectionError(rejection)
    /\ IF rejection.hasErrors
       THEN /\ apiFieldErrors' = rejection.errors
            /\ errors' = SetFormErrors(errors, rejection.errors, bookingPending[i])
       ELSE UNCHANGED << apiFieldErrors, errors >>
    /\ isLoading' = FALSE
    /\ bookingPending' = RemoveAt(bookingPending, i)
    /\ UNCHANGED << envVars, rooms, selectedRoom, bookingData, unavailableDates,
                    success, formValues, isSubmitted, roomsRequest, datesPending,
                    historyVars >>

-----------------------------------------------------------------------------
(* Specification *)

\* one step of the program; the parameters are the values the user types or
\* picks, the rejections the booking endpoint answers with and the bound on
\* the calls of createBooking
Step(names, codes, dates, rejections, maxBookings) ==
    \/ Mount
    \/ RoomsResolve
    \/ RoomsReject
    \/ \E i \in 1..MaxDatesPending : DatesResolve(i)
    \/ \E i \in 1..MaxDatesPending : DatesReject(i)
    \/ \E name \in names : SetGuestName(name)
    \/ \E code \in codes : SetPromoCode(code)
    \/ \E roomId \in {""} \cup RoomIds(getRooms) : SelectRoom(roomId)
    \/ \E date \in dates : SetCheckIn(date)
    \/ \E date \in dates : SetCheckOut(date)
    \/ Submit(maxBookings)
    \/ \E i \in 1..maxBookings : BookingResolve(i)
    \/ \E i \in 1..maxBookings, rejection \in rejections : BookingReject(i, rejection)

\* the request orchestration: two bookings, every kind of rejection, a user who
\* fills the form in with one value per field, within one day
Next == Step({"Jo"}, {Summer}, {1}, ApiRejections, MaxBookings)

Spec == Init /\ [][Next]_vars

\* a rejection without a response
NetworkError == [message |-> Null, hasErrors |-> FALSE, errors |-> NoErrors]

\* the promo code field: every promo code input, one booking
NextPromo == Step({"Jo"}, PromoInputs, {1}, {NetworkError}, MaxFormBookings)

SpecPromo == Init /\ [][NextPromo]_vars

\* the date pickers: the whole calendar, cleared dates, the clock, one booking
NextDates ==
    Step(GuestNames, {Summer}, Days \cup {NullDate}, {NetworkError}, MaxFormBookings)
        \/ Tick

SpecDates == Init /\ [][NextDates]_vars

\* the rooms endpoint: every shape of its response, one booking
InitRooms == Start /\ roomsResponse \in RoomsResponses

NextRooms == Step({"Jo"}, {Summer}, {1}, {NetworkError}, MaxFormBookings)

SpecRooms == InitRooms /\ [][NextRooms]_vars

\* a request that was issued completes: its promise resolves or rejects
RoomsComplete == RoomsResolve \/ RoomsReject

DatesComplete == \E i \in 1..MaxDatesPending : DatesResolve(i) \/ DatesReject(i)

BookingComplete ==
    \E i \in 1..MaxBookings :
        BookingResolve(i) \/ \E rejection \in ApiRejections : BookingReject(i, rejection)

\* the component mounts, and every issued request completes after some time
Completion ==
    /\ WF_vars(Mount)
    /\ WF_vars(RoomsComplete)
    /\ WF_vars(DatesComplete)
    /\ WF_vars(BookingComplete)

SpecLive == Init /\ [][Next]_vars /\ Completion

-----------------------------------------------------------------------------
(* Properties *)

\* this step calls ApiService.createBooking
CreateBookingCalled == createBookingCalls' = createBookingCalls + 1

NoCreateBookingCall ==
    /\ createBookingCalls' = createBookingCalls
    /\ bookingPending' = bookingPending

\* the data of the call this step makes
CalledWith == bookingPending'[Len(bookingPending')]

\* C1: a submit with an empty guest name, no room or a missing check-in or
\* check-out date never calls createBooking, and an empty guest name and a
\* missing room get their messages.
C1_RequiredFieldsStopSubmit ==
    [][Submit(MaxFormBookings) =>
        /\ (formValues.guest_name = ""
               => NoCreateBookingCall /\ errors'["guest_name"] = "Guest name is required")
        /\ (formValues.room_id = ""
               => NoCreateBookingCall /\ errors'["room_id"] = "Please select a room")
        /\ (formValues.check_in_date = NullDate => NoCreateBookingCall)
        /\ (formValues.check_out_date = NullDate => NoCreateBookingCall)]_vars

\* C2: a submit of a form with a guest name, a room, a check-in date not in the
\* past, a later check-out date and the promo code left empty passes validation
\* and calls createBooking.
C2_EmptyPromoCodeIsSubmitted ==
    [][(/\ Submit(MaxFormBookings)
        /\ createBookingCalls < MaxFormBookings
        /\ formValues.guest_name # ""
        /\ formValues.room_id # ""
        /\ formValues.check_in_date # NullDate
        /\ formValues.check_in_date >= today
        /\ formValues.check_out_date > formValues.check_in_date
        /\ formValues.promo_code = <<>>)
       => errors' = NoFormErrors /\ CreateBookingCalled]_vars

Letters ==
    {"A", "B", "C", "D", "E", "F", "G", "H", "I", "J", "K", "L", "M",
     "N", "O", "P", "Q", "R", "S", "T", "U", "V", "W", "X", "Y", "Z"}

Digits == {"0", "1", "2", "3", "4", "5", "6", "7", "8", "9"}

\* only uppercase letters and digits, between 6 and 10 characters
UppercaseAlphanumeric6To10(code) ==
    /\ Len(code) \in 6..10
    /\ \A i \in 1..Len(code) : code[i] \in Letters \cup Digits

\* C3: every call of createBooking carries a promo code of 6 to 10 uppercase
\* letters and digits; a submit with any other entered promo code sets the promo
\* code message and calls nothing; an entered code of that form gets no error.
C3_PromoCodeFormat ==
    [][/\ CreateBookingCalled => UppercaseAlphanumeric6To10(CalledWith.promo_code)
       /\ (Submit(MaxFormBookings) /\ formValues.promo_code # <<>>)
            => IF UppercaseAlphanumeric6To10(formValues.promo_code)
               THEN errors'["promo_code"] = NoError
               ELSE /\ errors'["promo_code"] =
                         "Promo code must be uppercase alphanumeric and between 6-10 characters"
                    /\ NoCreateBookingCall]_vars

\* a submitted form, complete but for a promo code of 11 uppercase letters,
\* shows the promo code message and has called nothing
C3_Witness ==
    /\ isSubmitted
    /\ formValues.guest_name = "Jo"
    /\ formValues.room_id = "1"
    /\ formValues.check_in_date = 1
    /\ formValues.check_out_date = 1
    /\ formValues.promo_code = Repeat("A", 11)
    /\ errors["promo_code"] =
           "Promo code must be uppercase alphanumeric and between 6-10 characters"
    /\ errors["guest_name"] = NoError
    /\ createBookingCalls = 0

\* C4: every call of createBooking has its check-out date strictly after its
\* check-in date.
C4_CheckOutAfterCheckIn ==
    [][(CreateBookingCalled /\ CalledWith.check_in_date # NullDate
                            /\ CalledWith.check_out_date # NullDate)
          => CalledWith.check_out_date > CalledWith.check_in_date]_vars

\* C5: every call of createBooking has a check-in date that is not before the
\* day of the call.
C5_CheckInNotInThePast ==
    [][(CreateBookingCalled /\ CalledWith.check_in_date # NullDate
                            /\ CalledWith.check_out_date # NullDate)
          => CalledWith.check_in_date >= today]_vars

\* C6: no call of createBooking has its check-in or check-out date on a day of
\* the unavailable dates loaded for its room.
C6_UnavailableDatesNotBooked ==
    [][(/\ CreateBookingCalled
        /\ datesPending = <<>>
        /\ selectedRoom # NullRoom
        /\ selectedRoom.id = CalledWith.room_id
        /\ unavailableDates = getUnavailableDates(CalledWith.room_id))
       => /\ CalledWith.check_in_date \notin unavailableDates
          /\ CalledWith.check_out_date \notin unavailableDates]_vars

\* C7: getRooms is called once, by the mount, and never again whatever happens
\* later; once the call has resolved, rooms is the list it returned.
C7_RoomsFetchedOnceOnMount ==
    /\ getRoomsCalls = (IF mounted THEN 1 ELSE 0)
    /\ roomsRequest = "resolved" => rooms = getRooms
    /\ roomsRequest \in {"none", "pending", "rejected"} => rooms = <<>>

\* rooms are loaded, and a room was selected, its dates loaded and a booking
\* made since
C7_Witness ==
    /\ roomsRequest = "resolved"
    /\ rooms = getRooms
    /\ getRoomsCalls = 1
    /\ selectedRoom # NullRoom
    /\ createBookingCalls = 2
    /\ bookingPending = <<>>
    /\ success = "Booking created successfully!"

\* the element of rs with the id, or null
RoomWithId(rs, roomId) ==
    LET found == {i \in 1..Len(rs) : rs[i].id = roomId}
    IN  IF found = {} THEN NullRoom ELSE rs[CHOOSE i \in found : TRUE]

\* C8: a change of the form's room_id to a non-empty id calls
\* getUnavailableDates with that id; when a call resolves, unavailableDates is
\* the dates returned for the call's room and selectedRoom is the element of
\* rooms with that id, or null when there is none.
C8_UnavailableDatesFetchedOnSelection ==
    [][/\ (formValues'.room_id # formValues.room_id /\ formValues'.room_id # "")
            => /\ Len(datesPending') = Len(datesPending) + 1
               /\ datesPending'[Len(datesPending')].roomId = formValues'.room_id
       /\ \A i \in 1..MaxDatesPending :
            DatesResolve(i)
              => /\ unavailableDates' = ServerUnavailableDates(datesPending[i].roomId)
                 /\ selectedRoom' = RoomWithId(rooms, datesPending[i].roomId)]_vars

\* room 2 was selected after room 1 and its dates have loaded
C8_Witness ==
    /\ formValues.room_id = "2"
    /\ datesPending = <<>>
    /\ selectedRoom # NullRoom
    /\ selectedRoom.id = "2"
    /\ unavailableDates = ServerUnavailableDates("2")
    /\ bookingData.room_id = "1"

\* all required fields of the data are filled in
Complete(data) ==
    /\ data.guest_name # ""
    /\ data.room_id # ""
    /\ data.check_in_date # NullDate
    /\ data.check_out_date # NullDate

\* C9 as stated: when createBooking resolves for a complete form, success is the
\* success message, bookingData is the submitted data, error is null and
\* isLoading is false.
C9_ErrorNullAfterSuccess ==
    [][\A i \in 1..MaxBookings :
         (BookingResolve(i) /\ Complete(bookingPending[i]))
           => /\ success' = "Booking created successfully!"
              /\ bookingData' = bookingPending[i]
              /\ error' = Null
              /\ isLoading' = FALSE]_vars

\* C9: when createBooking resolves, success is the success message, bookingData
\* is the submitted data, error is left as it was and isLoading is false; and
\* success becomes the success message in no other step.
C9_BookingSuccess ==
    [][/\ \A i \in 1..MaxBookings :
            BookingResolve(i)
              => /\ success' = "Booking created successfully!"
                 /\ bookingData' = bookingPending[i]
                 /\ error' = error
                 /\ isLoading' = FALSE
       /\ (success' = "Booking created successfully!" /\ success' # success)
            => \E i \in 1..MaxBookings : BookingResolve(i)]_vars

\* a booking has resolved: the success message is shown, without an error, and
\* bookingData holds what was submitted
C9_Witness ==
    /\ success = "Booking created successfully!"
    /\ error = Null
    /\ ~isLoading
    /\ bookingPending = <<>>
    /\ createBookingCalls = 1
    /\ bookingData.guest_name = "Jo"
    /\ bookingData.room_id = "2"
    /\ bookingData.check_in_date = 1
    /\ bookingData.promo_code = Summer

\* C10: when createBooking is rejected with an errors map, error is the
\* response's message or 'Validation failed', each form field of the map with a
\* message gets its first message as form error, the other fields of the map
\* get none, and success is null.
C10_StructuredRejection ==
    [][\A i \in 1..MaxBookings, rejection \in ApiRejections :
         (BookingReject(i, rejection) /\ rejection.hasErrors
                                      /\ Complete(bookingPending[i]))
           => /\ error' = (IF rejection.message # Null THEN rejection.message
                           ELSE "Validation failed")
              /\ \A k \in FormFields :
                    errors'[k] = (IF Len(rejection.errors[k]) > 0
                                  THEN rejection.errors[k][1] ELSE errors[k])
              /\ \A k \in ApiErrorKeys \ FormFields : errors'[k] = NoError
              /\ success' = Null]_vars

\* the same without the clause on success
C10_ErrorsMappedOntoFields ==
    [][\A i \in 1..MaxBookings, rejection \in ApiRejections :
         (BookingReject(i, rejection) /\ rejection.hasErrors)
           => /\ error' = (IF rejection.message # Null THEN rejection.message
                           ELSE "Validation failed")
              /\ \A k \in FormFields :
                    errors'[k] = (IF Len(rejection.errors[k]) > 0
                                  THEN rejection.errors[k][1] ELSE errors[k])
              /\ \A k \in ApiErrorKeys \ FormFields : errors'[k] = NoError]_vars

\* some request is in flight
RequestInFlight ==
    roomsRequest = "pending" \/ datesPending # <<>> \/ bookingPending # <<>>

\* C11: in every state in which a getRooms, getUnavailableDates or createBooking
\* request is in flight, isLoading is true and the submit button is disabled.
C11_LoadingCoversEveryRequest == RequestInFlight => isLoading /\ SubmitDisabled

\* C12: the check-out picker is disabled exactly when the form has no check-in
\* date; its value changes only while a check-in date is chosen, and a step
\* that leaves a check-in date in the form leaves the picker enabled.
C12_CheckOutDisabledIffNoCheckIn ==
    [][/\ CheckOutDisabled <=> formValues.check_in_date = NullDate
       /\ formValues'.check_out_date # formValues.check_out_date
            => mounted /\ formValues.check_in_date # NullDate
       /\ formValues'.check_in_date # NullDate => ~CheckOutDisabled']_vars

\* the check-in date was cleared after a check-out date had been picked, and no
\* booking has stored a date in the context
C12_Witness ==
    /\ mounted
    /\ formValues.check_in_date = NullDate
    /\ formValues.check_out_date = 2
    /\ bookingData.check_in_date = NullDate
    /\ CheckOutDisabled

\* the general error the claim gives for a rejection without an errors map
UnstructuredError(rejection) ==
    IF rejection.message # Null THEN rejection.message
    ELSE "Failed to create booking. Please try again."

\* C13: when createBooking is rejected without an errors map, error is the
\* response's message or 'Failed to create booking. Please try again.', no form
\* field error is set, the API field errors are empty, success is null,
\* bookingData is unchanged and isLoading is false.
C13_UnstructuredRejection ==
    [][\A i \in 1..MaxBookings, rejection \in ApiRejections :
         (BookingReject(i, rejection) /\ ~rejection.hasErrors
                                      /\ Complete(bookingPending[i]))
           => /\ error' = UnstructuredError(rejection)
              /\ errors' = errors
              /\ apiFieldErrors' = NoErrors
              /\ success' = Null
              /\ bookingData' = bookingData
              /\ isLoading' = FALSE]_vars

\* the same where the API field errors and success are left as they were
C13_UnstructuredRejectionFrame ==
    [][\A i \in 1..MaxBookings, rejection \in ApiRejections :
         (BookingReject(i, rejection) /\ ~rejection.hasErrors)
           => /\ error' = UnstructuredError(rejection)
              /\ errors' = errors
              /\ apiFieldErrors' = apiFieldErrors
              /\ success' = success
              /\ bookingData' = bookingData
              /\ isLoading' = FALSE]_vars

\* C14: when getRooms fails, error is 'Failed to load rooms. Please try again.',
\* rooms is left as it was, the empty list, and isLoading is false; after the
\* failure getRooms is never called again and rooms stays empty.
C14_RoomsFailure ==
    [][/\ RoomsReject
            => /\ error' = "Failed to load rooms. Please try again."
               /\ rooms' = rooms
               /\ rooms' = <<>>
               /\ isLoading' = FALSE
       /\ roomsRequest = "rejected"
            => /\ roomsRequest' = "rejected"
               /\ getRoomsCalls' = getRoomsCalls
               /\ getRoomsCalls = 1
               /\ rooms' = <<>>]_vars

\* the rooms request has failed and the user has used the form since
C14_Witness ==
    /\ roomsRequest = "rejected"
    /\ error = "Failed to load rooms. Please try again."
    /\ rooms = <<>>
    /\ ~isLoading
    /\ getRoomsCalls = 1
    /\ isSubmitted
    /\ formValues.guest_name = "Jo"

\* C15: when getUnavailableDates fails, error is 'Failed to load availability.
\* Please try again.' and unavailableDates and selectedRoom are left as they
\* were; what they hold is the dates and the room of one room selected before,
\* or their initial values.
C15_DatesFailureFrame ==
    [][/\ \A i \in 1..MaxDatesPending :
            DatesReject(i)
              => /\ error' = "Failed to load availability. Please try again."
                 /\ unavailableDates' = unavailableDates
                 /\ selectedRoom' = selectedRoom
       /\ \/ selectedRoom' = NullRoom /\ unavailableDates' = {}
          \/ \E roomId \in RoomIds(rooms') :
                /\ selectedRoom' = RoomWithId(rooms', roomId)
                /\ unavailableDates' = ServerUnavailableDates(roomId)]_vars

\* the dates of room 1 are loaded, room 2 is selected and its request has failed
C15_Witness ==
    /\ formValues.room_id = "2"
    /\ datesPending = <<>>
    /\ error = "Failed to load availability. Please try again."
    /\ selectedRoom = RoomWithId(rooms, "1")
    /\ unavailableDates = ServerUnavailableDates("1")
    /\ ~isLoading

\* the API's price, and the default only when the API provides none
PriceOrDefaultIfMissing(price) == IF price = NoPrice THEN DefaultPrice ELSE price

\* the Room the claim describes for an element of a paginated response
ClaimedRoom(room) ==
    [id |-> ToString(room.id),
     name |-> <<"Room ", room.number, " (", room.type, ")">>,
     price |-> PriceOrDefaultIfMissing(room.price),
     description |-> <<"A comfortable ", room.type, " room">>]

ClaimedRooms(response) ==
    IF response.paginated
    THEN [i \in 1..Len(response.data) |-> ClaimedRoom(response.data[i])]
    ELSE response.data

\* C16: getRooms resolves with the paginated response mapped element by
\* element (id as a string, name, description, price = the API's price and 100
\* only where the API provides none), and with response.data itself for any
\* other response; rooms becomes that list.
C16_RoomsMapping ==
    [][RoomsResolve
         => /\ getRooms = ClaimedRooms(roomsResponse)
            /\ rooms' = ClaimedRooms(roomsResponse)]_vars

\* the same for the responses in which no room has the price 0
C16_RoomsMappingOfPricedRooms ==
    [][(/\ RoomsResolve
        /\ roomsResponse.paginated
             => \A i \in 1..Len(roomsResponse.data) : roomsResponse.data[i].price # 0)
         => /\ getRooms = ClaimedRooms(roomsResponse)
            /\ rooms' = ClaimedRooms(roomsResponse)]_vars

\* every request has completed, and none has failed since the room of the form
\* was selected: a selection clears error, a failure sets it, and without a
\* call of createBooking nothing else clears it
AllLoadedForSelectedRoom ==
    /\ mounted
    /\ roomsRequest = "resolved"
    /\ datesPending = <<>>
    /\ createBookingCalls = 0
    /\ formValues.room_id # ""
    /\ error = Null

\* C17: once the requests for the rooms selected one after the other have all
\* resolved, in whichever order, unavailableDates is the dates returned for the
\* room selected last and selectedRoom is that room.
C17_LastSelectedRoomWins ==
    AllLoadedForSelectedRoom
        => /\ unavailableDates = ServerUnavailableDates(formValues.room_id)
           /\ selectedRoom = RoomWithId(rooms, formValues.room_id)

\* the same where a response is applied only in the order of the requests: it
\* holds while the request of the selected room is the last to resolve
C17_SelectedRoomLoadedLast ==
    [][\A i \in 1..MaxDatesPending :
         (/\ DatesResolve(i)
          /\ datesPending[i].roomId = formValues.room_id
          /\ datesPending[i].rooms = rooms)
           => /\ unavailableDates' = ServerUnavailableDates(formValues.room_id)
              /\ selectedRoom' = RoomWithId(rooms, formValues.room_id)]_vars

\* C18: at most one createBooking request is in flight at any time.
C18_OneBookingInFlight == Len(bookingPending) <= 1

\* C19 as stated: success and error are never both set.
C19_SuccessAndErrorExclusive == ~(success # Null /\ error # Null)

\* C19: a call of createBooking clears both messages, and its completion sets
\* one of them and leaves the other as it was; success and error are both set
\* only when the error is that of a failed getUnavailableDates request or when
\* two calls of createBooking were made.
C19_OneMessagePerCompletion ==
    [][/\ CreateBookingCalled => success' = Null /\ error' = Null
       /\ \A i \in 1..MaxBookings :
            /\ BookingResolve(i) => success' # Null /\ error' = error
            /\ \A rejection \in ApiRejections :
                 BookingReject(i, rejection) => error' # Null /\ success' = success
       /\ (success # Null /\ error # Null)
            => \/ error = "Failed to load availability. Please try again."
               \/ createBookingCalls > 1]_vars

\* a booking succeeded and the next one was rejected: the submit had cleared
\* the success message, and only the error is shown
C19_Witness ==
    /\ createBookingCalls = 2
    /\ bookingPending = <<>>
    /\ Complete(bookingData)
    /\ success = Null
    /\ error = "Room is not available"
    /\ ~isLoading

\* C20: a change of the room selection to the empty option issues no request
\* and leaves selectedRoom, unavailableDates, error and isLoading as they were.
C20_EmptyOptionFrame ==
    [][(formValues'.room_id = "" /\ formValues.room_id # "")
         => /\ requestVars' = requestVars
            /\ historyVars' = historyVars
            /\ selectedRoom' = selectedRoom
            /\ unavailableDates' = unavailableDates
            /\ error' = error
            /\ isLoading' = isLoading]_vars

\* the empty option is selected while the panel and the disabled dates are
\* still those of room 1
C20_Witness ==
    /\ mounted
    /\ formValues.room_id = ""
    /\ datesPending = <<>>
    /\ selectedRoom = RoomWithId(rooms, "1")
    /\ unavailableDates = ServerUnavailableDates("1")
    /\ unavailableDates # {}
    /\ ~isLoading

\* this step issues a request
RequestStarted ==
    \/ getRoomsCalls' > getRoomsCalls
    \/ Len(datesPending') > Len(datesPending)
    \/ Len(bookingPending') > Len(bookingPending)

\* C21: every completion of a getRooms, getUnavailableDates or createBooking
\* request sets isLoading to false; whenever no request is in flight isLoading
\* is false and the submit button enabled; and when every issued request
\* completes, either requests are started again and again, or from some point
\* on isLoading is false and the submit button enabled for good.
C21_LoadingFlagReleased ==
    /\ [][(RoomsComplete \/ DatesComplete \/ BookingComplete) => isLoading' = FALSE]_vars
    /\ [](~RequestInFlight => ~isLoading /\ ~SubmitDisabled)
    /\ ([]<><<RequestStarted>>_vars \/ <>[](~isLoading /\ ~SubmitDisabled))

\* a booking was made and rejected, every request has completed, and the flag
\* is released
C21_Witness ==
    /\ mounted
    /\ roomsRequest = "resolved"
    /\ createBookingCalls = 1
    /\ ~RequestInFlight
    /\ error = "Room is not available"
    /\ unavailableDates # {}
    /\ ~isLoading
    /\ ~SubmitDisabled

=============================================================================
